---- MODULE Spec2Model ----
(***************************************************************************)
(* A model of videobatch (src/videobatch/__init__.py): the batch driver    *)
(* AbstractBatch.run, the single-file Processor (a context manager and a   *)
(* frame generator) and the engines Pixylation and Projection that plug    *)
(* their __start__/__update__/__done__ hooks into it.                      *)
(*                                                                         *)
(* The program is single-threaded.  One run of AbstractBatch.run is cut    *)
(* into the steps between which the claims observe it:                     *)
(*   Batch__init__        run(config) constructs the engine                *)
(*   Processor__enter__   the for loop takes the next path and enters the  *)
(*                        with statement (reader opened, __start__ called) *)
(*   Processor__iter__    the generator is resumed for the next frame      *)
(*   Call__update__       the loop body calls __update__(i, frame)         *)
(*   Processor__exit__    the with statement leaves through __exit__       *)
(*   RunReturn            the for loop is exhausted and run() returns      *)
(* What the environment decides (whether a file opens, a write or a close  *)
(* fails, what a frame holds, where a stream ends) is chosen with \E.      *)
(***************************************************************************)
EXTENDS Integers, Sequences, FiniteSets, TLC

\* ------------------------------------------------------------------ bounds
NumFiles == 2      \* paths that _expandsources yields
MaxCalls == 3      \* calls of _initialize_tables in one process
MaxCoord == 2      \* x and y of a configured rectangle, at most
MaxSide == 3       \* w and h of a configured rectangle, at most
MaxFrames == 2     \* frames a reader yields at most
FrameW == 2        \* width of a frame, in pixels
FrameH == 1        \* height of a frame, in pixels

\* ------------------------------------------------------ pixels and tables
Black == <<0, 0, 0>>
Red   == <<255, 0, 0>>
Green == <<0, 255, 0>>
Palette == <<Black, Red, Green>>

Max2(a, b) == IF a >= b THEN a ELSE b
Min2(a, b) == IF a <= b THEN a ELSE b

\* round half to even of q + r/den, given the quotient q and the remainder r
HalfEven(q, r, den) ==
    IF 2 * r < den THEN q
    ELSE IF 2 * r > den THEN q + 1
    ELSE IF q % 2 = 0 THEN q ELSE q + 1

\* numpy.around of the non-negative rational num/den
Around(num, den) == HalfEven(num \div den, num % den, den)

\* _Htable[R,G,B] as _initialize_tables fills it, m and D being the least
\* channel and the spread of the channels
HueOf_greyzero(R, G, B, m, D) ==
    IF D = 0 THEN 0
    ELSE IF m = B THEN Around(60 * (D + (G - R)), D)
    ELSE IF m = R THEN Around(60 * (3 * D + (B - G)), D)
    ELSE Around(60 * (5 * D + (R - B)), D)

HueOf(R, G, B, m, D) ==
    IF D = 0 THEN -1
    ELSE IF m = B THEN Around(60 * (D + (G - R)), D)
    ELSE IF m = R THEN Around(60 * (3 * D + (B - G)), D)
    ELSE Around(60 * (5 * D + (R - B)), D)

Htable(p) ==
    HueOf(p[1], p[2], p[3], Min2(p[1], Min2(p[2], p[3])),
          Max2(p[1], Max2(p[2], p[3])) - Min2(p[1], Min2(p[2], p[3])))

\* _Ltable[R,G,B], in units of 1/255000
Ltable_negblue(p) == 212 * p[1] + 701 * p[2] - 87 * p[3]

Ltable(p) == 212 * p[1] + 701 * p[2] + 87 * p[3]

\* vector_as_HL: the hue and the luminance vectors of a pixel vector
vector_as_HL(vec) ==
    [H |-> [k \in 1..Len(vec) |-> Htable(vec[k])],
     L |-> [k \in 1..Len(vec) |-> Ltable(vec[k])]]

\* ---------------------------------------------------------------- frames
\* A frame is frame[y][x], 0-indexed.  The frames a reader may yield: one
\* all-black frame and, for s = 0 and s = 1, the frame whose pixel (x,y)
\* holds the palette colour number (x + y + s) mod 3.
Frames ==
    { [y \in 0..(FrameH - 1) |-> [x \in 0..(FrameW - 1) |-> Black]] } \cup
    { [y \in 0..(FrameH - 1) |->
          [x \in 0..(FrameW - 1) |-> Palette[((x + y + s) % 3) + 1]]] : s \in 0..1 }

NoFrame == [y \in 0..(FrameH - 1) |-> [x \in 0..(FrameW - 1) |-> <<-1, -1, -1>>]]

\* numpy.zeros(frame.shape): the annotated frame before any mark
ZeroFrame == [y \in 0..(FrameH - 1) |-> [x \in 0..(FrameW - 1) |-> Black]]

\* ------------------------------------------------------------------ ROIs
\* RectangularROI.__init__: arange, meshgrid(indexing='xy') and flatten give
\* the coordinates row by row
RectangularROI_byheight(name, specs) ==
    LET w == IF specs.w >= 0 THEN specs.w ELSE 0
        h == IF specs.h >= 0 THEN specs.h ELSE 0
    IN  [name |-> name,
         xpos |-> [k \in 1..(w * h) |-> specs.x + ((k - 1) % w)],
         ypos |-> [k \in 1..(w * h) |-> specs.y + ((k - 1) \div h)]]

RectangularROI(name, specs) ==
    LET w == Max2(specs.w, 0)
        h == Max2(specs.h, 0)
    IN  [name |-> name,
         xpos |-> [k \in 1..(w * h) |-> specs.x + ((k - 1) % w)],
         ypos |-> [k \in 1..(w * h) |-> specs.y + ((k - 1) \div w)]]

\* MaskROI.__init__: numpy.where(mask) lists the 'on' pixels row by row;
\* on is that list as a sequence of <<y, x>>
MaskROI(name, on) ==
    [name |-> name,
     xpos |-> [k \in 1..Len(on) |-> on[k][2]],
     ypos |-> [k \in 1..Len(on) |-> on[k][1]]]

\* ROI.is_empty
is_empty_never(roi) == FALSE

is_empty(roi) == Len(roi.xpos) = 0

\* frame[self.ypos, self.xpos] raises IndexError for an index past the frame
InFrame(roi) ==
    \A k \in 1..Len(roi.xpos) :
        /\ roi.xpos[k] \in 0..(FrameW - 1)
        /\ roi.ypos[k] \in 0..(FrameH - 1)

\* ROI.crop (for a roi inside the frame)
crop(roi, fr) == [k \in 1..Len(roi.xpos) |-> fr[roi.ypos[k]][roi.xpos[k]]]

\* ROI.mark
mark_keepfirst(roi, M, mask, value) ==
    [y \in DOMAIN M |-> [x \in DOMAIN M[y] |->
        IF /\ M[y][x] = <<0, 0, 0>>
           /\ \E k \in 1..Len(roi.xpos) :
                 mask[k] /\ roi.xpos[k] = x /\ roi.ypos[k] = y
        THEN value ELSE M[y][x]]]

mark(roi, M, mask, value) ==
    [y \in DOMAIN M |-> [x \in DOMAIN M[y] |->
        IF \E k \in 1..Len(roi.xpos) :
              mask[k] /\ roi.xpos[k] = x /\ roi.ypos[k] = y
        THEN value ELSE M[y][x]]]

\* ----------------------------------------------------------- color masks
\* ColorMask.__init__; color stands for the 8-bit RGB that matplotlib's hsv
\* colormap gives at (onset + offset)/720
ColorMask(name, onset, offset, color) ==
    [name |-> name, onset |-> onset, offset |-> offset, color |-> color]

\* ColorMask.apply
apply(colormask, hues) ==
    [k \in 1..Len(hues) |-> hues[k] >= colormask.onset /\ hues[k] < colormask.offset]

\* --------------------------------------------------------- configurations
RedMask   == ColorMask("red", 0, 60, <<255, 125, 0>>)
GreenMask == ColorMask("green", 90, 150, <<8, 255, 0>>)
WarmMask  == ColorMask("warm", 0, 130, <<234, 255, 0>>)

\* the hue intervals of "red" and "green" are apart, that of "warm" holds
\* the hues of both Red (0) and Green (120)
MaskConfigs ==
    { <<RedMask, GreenMask>>, <<GreenMask, RedMask>>,
      <<RedMask, WarmMask>>, <<WarmMask, RedMask>> }

RoiWhole  == RectangularROI("whole", [x |-> 0, y |-> 0, w |-> 2, h |-> 1])
RoiLeft   == RectangularROI("left",  [x |-> 0, y |-> 0, w |-> 1, h |-> 1])
RoiRight  == MaskROI("right", << <<0, 1>> >>)
RoiNoW    == RectangularROI("now",   [x |-> 0, y |-> 0, w |-> 0, h |-> 1])
RoiNoH    == RectangularROI("noh",   [x |-> 0, y |-> 0, w |-> 1, h |-> 0])
RoiBeyond == RectangularROI("beyond", [x |-> 0, y |-> 5, w |-> 1, h |-> 1])

RoiConfigs ==
    { <<RoiWhole, RoiRight>>,
      <<RoiNoW, RoiLeft>>,
      <<RoiNoW, RoiNoH>>,
      <<RoiLeft, RoiBeyond>> }

RoiNames(rois) == { rois[k].name : k \in 1..Len(rois) }


\* ------------------------------------------------------------- variables
VARIABLES
    sources,      \* the number of source files the configuration names
    command,      \* the command of the configuration: which engine runs
    projtype,     \* Projection.projtype
    ROIs,         \* Pixylation.ROIs, in declaration order
    masks,        \* Pixylation.masks, in declaration order
    pc,           \* where AbstractBatch.run stands
    cur,          \* number of the path the for loop of run is at
    job,          \* per path: the reader and what has happened to the file
    pulled,       \* frames the generator has taken from the reader of this file
    frame,        \* the frame the generator has yielded
    idx,          \* the index i the generator has yielded with it
    exc,          \* the exception raised inside the with body, or "none"
    leaving,      \* the exception that has left run(), or "none"
    updates,      \* the indices __update__ was called with, for this file
    seen,         \* the frames __update__ was called with, for this file
    openlog,      \* how each result sink opened in the last __start__
    masknames,    \* Pixylation._masknames
    resultfiles,  \* Pixylation._resultfiles
    maskfile,     \* Pixylation._maskfile
    buffer,       \* Projection._buffer: the number of frames in it, -1 for None
    nframe,       \* Projection._nframe, or -1 while the attribute is not set
    rgb,          \* a vector of pixels handed to vector_as_HL
    hl,           \* the hues and luminances vector_as_HL returned for rgb
    rect,         \* the specs a RectangularROI is constructed from
    tables,       \* _Htable and _Ltable: how often they were built, how often
                  \* _initialize_tables was called, which build lookups read
    legacy        \* a Pixylation object of the legacy engine (src/videobatch.py)

vars == <<sources, command, projtype, ROIs, masks, pc, cur, job, pulled, frame,
          idx, exc, leaving, updates, seen, openlog, masknames, resultfiles,
          maskfile, buffer, nframe, rgb, hl, rect, tables, legacy>>

config == <<sources, command, projtype, ROIs, masks>>

lookup == <<rgb, hl, rect>>

\* _Htable is None and _Ltable is None: no call of _initialize_tables yet
NoTables == [built |-> 0, calls |-> 0, reads |-> {}]

\* _initialize_tables: the tables are built when _Htable is None, and are
\* left as they are otherwise
_initialize_tables_always(t) == [t EXCEPT !.built = @ + 1, !.calls = @ + 1]

_initialize_tables(t) ==
    [t EXCEPT !.built = IF @ = 0 THEN 1 ELSE @, !.calls = @ + 1]

\* a lookup _Htable[...], _Ltable[...] reads the tables as last built
ReadTables(t) == [t EXCEPT !.reads = @ \cup {t.built}]

engine == <<masknames, resultfiles, maskfile, buffer, nframe>>

\* the state of the engine after a hook, and whether the hook raised
EngineState(raised, names, rf, mf, buf, nf) ==
    [raised |-> raised, masknames |-> names, resultfiles |-> rf, maskfile |-> mf,
     buffer |-> buf, nframe |-> nf]

\* ------------------------------------------------------------ Pixylation
\* A sink is [st |-> "None"] where the code holds None or no entry, and is
\* "open", "closed" or "closefailed" (close() was called and raised) else.

\* force_close: close() is tried and whatever it raises is dropped; a None
\* has no close(), an AttributeError that is dropped as well
force_close_bare(fp, fails) ==
    IF fp.st = "None" THEN [fp |-> fp, raised |-> TRUE]
    ELSE [fp |-> [fp EXCEPT !.st = IF fails THEN "closefailed" ELSE "closed"],
          raised |-> fails]

force_close(fp, fails) ==
    IF fp.st = "None" THEN [fp |-> fp, raised |-> FALSE]
    ELSE [fp |-> [fp EXCEPT !.st = IF fails THEN "closefailed" ELSE "closed"],
          raised |-> FALSE]

NoSink == [st |-> "None", lines |-> <<>>]
NoVideo == [st |-> "None", frames |-> <<>>]

\* _mask_entries: the two column names of a color mask
_mask_entries(maskname) == << <<maskname, "CM_X">>, <<maskname, "CM_Y">> >>

RECURSIVE JoinEntries(_, _)
JoinEntries(names, k) ==
    IF k > Len(names) THEN <<>>
    ELSE _mask_entries(names[k]) \o JoinEntries(names, k + 1)

\* 'Slice,' + ','.join(_mask_entries(m) for m in self._masknames) + '\n'
HeaderLine(names) == [kind |-> "header", slice |-> -1, cols |-> JoinEntries(names, 1)]

\* tuple(maskname for maskname in self.masks.keys())
MaskNames(ms) == [k \in 1..Len(ms) |-> ms[k].name]

\* the try block of __start__ for one ROI: open() raises ("openfail"), or
\* open() succeeds and a write raises ("writefail"), or both succeed ("ok").
\* The except clause drops the exception.
OpenResult_uncaught(acc, name, names, outcome) ==
    [rf |-> IF outcome = "openfail" THEN acc.rf
            ELSE IF outcome = "writefail"
                 THEN [acc.rf EXCEPT ![name] = [st |-> "open", lines |-> <<>>]]
                 ELSE [acc.rf EXCEPT ![name] = [st |-> "open", lines |-> <<HeaderLine(names)>>]],
     raised |-> outcome # "ok"]

OpenResult(acc, name, names, outcome) ==
    [rf |-> IF outcome = "openfail" THEN acc.rf
            ELSE IF outcome = "writefail"
                 THEN [acc.rf EXCEPT ![name] = [st |-> "open", lines |-> <<>>]]
                 ELSE [acc.rf EXCEPT ![name] = [st |-> "open", lines |-> <<HeaderLine(names)>>]],
     raised |-> FALSE]

\* len(self._resultfiles) == 0
NothingToOutput_never(rf) == FALSE

NothingToOutput(rf) == \A n \in DOMAIN rf : rf[n].st = "None"

\* the for loop of __start__ over the ROIs, from ROI number k on; acc holds
\* _resultfiles so far and whether an exception has left the loop
RECURSIVE StartROIs(_, _, _, _)
StartROIs(k, acc, names, outcome) ==
    IF k > Len(ROIs) \/ acc.raised THEN acc
    ELSE IF is_empty(ROIs[k]) THEN StartROIs(k + 1, acc, names, outcome)
    ELSE StartROIs(k + 1, OpenResult(acc, ROIs[k].name, names, outcome[ROIs[k].name]),
                   names, outcome)

NonEmptyNames == { ROIs[k].name : k \in { j \in 1..Len(ROIs) : ~is_empty(ROIs[j]) } }

\* what the environment decides during Pixylation.__start__: whether
\* ensure_directory succeeds (ok), how each result sink opens, whether the
\* video writer opens
PixStartEnv ==
    [ok : {TRUE},
     open : [NonEmptyNames -> {"ok", "openfail", "writefail"}],
     video : BOOLEAN]
    \cup
    [ok : {FALSE}, open : {[n \in NonEmptyNames |-> "ok"]}, video : {TRUE}]

\* __start__ from the loop over the ROIs on, r being what the loop left
StartAfterROIs(r, names, video) ==
    IF r.raised \/ NothingToOutput(r.rf)
    THEN EngineState(TRUE, names, r.rf, NoVideo, buffer, nframe)
    ELSE EngineState(FALSE, names, r.rf,
                     IF video THEN [st |-> "open", frames |-> <<>>] ELSE NoVideo,
                     buffer, nframe)

\* Pixylation.__start__
Pixylation__start__(env) ==
    IF ~env.ok
    THEN EngineState(TRUE, MaskNames(masks), [n \in RoiNames(ROIs) |-> NoSink], NoVideo,
                     buffer, nframe)
    ELSE StartAfterROIs(
            StartROIs(1, [rf |-> [n \in RoiNames(ROIs) |-> NoSink], raised |-> FALSE],
                      MaskNames(masks), env.open),
            MaskNames(masks), env.video)

\* a text field of a row: "{0:.4f}".format(v) of a float v that is NaN, or
\* that is num/den, which is rounded to a whole number e4 of 1/10000
NaN == [nan |-> TRUE, e4 |-> 0]

\* one more decimal digit of a long division by den
DecimalStep(p, den) ==
    [q |-> 10 * p.q + ((10 * p.r) \div den), r |-> (10 * p.r) % den]

\* floor(num * 10^n / den) and the remainder
RECURSIVE Decimals(_, _, _)
Decimals(num, den, n) ==
    IF n = 0 THEN [q |-> num \div den, r |-> num % den]
    ELSE DecimalStep(Decimals(num, den, n - 1), den)

Rounded4(d, den) == [nan |-> FALSE, e4 |-> HalfEven(d.q, d.r, den)]

Format4(num, den) == IF den = 0 THEN NaN ELSE Rounded4(Decimals(num, den, 4), den)

RECURSIVE SumMatched(_, _, _)
SumMatched(vals, match, k) ==
    IF k = 0 THEN 0
    ELSE SumMatched(vals, match, k - 1) + (IF match[k] THEN vals[k] ELSE 0)

count_nonzero(match) == Cardinality({ k \in 1..Len(match) : match[k] })

\* xrepr + 1 and yrepr + 1 as they are written: sx, sy and sw are the sums of
\* x*w, y*w and w over the matched pixels, (sx + sw)/sw is sx/sw + 1, and a
\* zero sw gives 0/0, which is nan
Representative_0indexed(sx, sy, sw) == <<Format4(sx, sw), Format4(sy, sw)>>

Representative(sx, sy, sw) == <<Format4(sx + sw, sw), Format4(sy + sw, sw)>>

\* the body of the loop over the color masks in __update__ for one mask,
\* given roi_match: the two values appended, and the annotated frame
MatchValues_zeros(roi, L, roi_match, colormask, M) ==
    IF count_nonzero(roi_match) > 0
    THEN [values |-> Representative(
                        SumMatched([k \in 1..Len(L) |-> roi.xpos[k] * L[k]], roi_match, Len(L)),
                        SumMatched([k \in 1..Len(L) |-> roi.ypos[k] * L[k]], roi_match, Len(L)),
                        SumMatched(L, roi_match, Len(L))),
          M |-> mark(roi, M, roi_match, colormask.color)]
    ELSE [values |-> <<Format4(0, 1), Format4(0, 1)>>, M |-> M]

MatchValues(roi, L, roi_match, colormask, M) ==
    IF count_nonzero(roi_match) > 0
    THEN [values |-> Representative(
                        SumMatched([k \in 1..Len(L) |-> roi.xpos[k] * L[k]], roi_match, Len(L)),
                        SumMatched([k \in 1..Len(L) |-> roi.ypos[k] * L[k]], roi_match, Len(L)),
                        SumMatched(L, roi_match, Len(L))),
          M |-> mark(roi, M, roi_match, colormask.color)]
    ELSE [values |-> <<NaN, NaN>>, M |-> M]

MaskValues(roi, H, L, colormask, M) ==
    MatchValues(roi, L, apply(colormask, H), colormask, M)

\* values.append(...) twice, and M after roi.mark
AppendValues(acc, one) == [values |-> acc.values \o one.values, M |-> one.M]

\* the color mask the loop over get_items(self.masks) reaches in its j-th turn
MaskAt(j) == masks[j]

\* for maskname, colormask in get_items(self.masks), from the j-th turn on
RECURSIVE ForMasks(_, _, _, _, _)
ForMasks(roi, H, L, j, acc) ==
    IF j > Len(masks) THEN acc
    ELSE ForMasks(roi, H, L, j + 1,
                  AppendValues(acc, MaskValues(roi, H, L, MaskAt(j), acc.M)))

\* roi_H, roi_L = vector_as_HL(roi.crop(frame)), then the loop over the masks
RoiValuesHL(roi, HL, M) == ForMasks(roi, HL.H, HL.L, 1, [values |-> <<>>, M |-> M])

RoiValues(roi, fr, M) == RoiValuesHL(roi, vector_as_HL(crop(roi, fr)), M)

\* "{0},".format(i) + ','.join("{0:.4f}".format(v) for v in values) + '\n'
RowLine_stale(i, values) == [kind |-> "row", slice |-> i + (cur - 1), cols |-> values]

RowLine(i, values) == [kind |-> "row", slice |-> i, cols |-> values]

\* self._resultfiles[roiname].write(...): raises when the environment fails
\* the write (failAt) and when the sink is not an open file
WriteRow(acc, name, i, v, failAt) ==
    IF failAt = name \/ acc.rf[name].st # "open"
    THEN [rf |-> acc.rf, M |-> v.M, raised |-> TRUE]
    ELSE [rf |-> [acc.rf EXCEPT ![name].lines = Append(@, RowLine(i, v.values))],
          M |-> v.M, raised |-> FALSE]

\* roiname not in self._resultfiles.keys()
NotInResultfiles(rf, roiname) == rf[roiname].st = "None"

\* the body of the for loop of __update__ over the ROIs, for one ROI; crop
\* raises IndexError for a ROI that reaches outside the frame
UpdateROI(acc, roi, i, fr, failAt) ==
    IF NotInResultfiles(acc.rf, roi.name) THEN acc
    ELSE IF ~InFrame(roi) THEN [rf |-> acc.rf, M |-> acc.M, raised |-> TRUE]
    ELSE WriteRow(acc, roi.name, i, RoiValues(roi, fr, acc.M), failAt)

\* the for loop of __update__ over the ROIs, from ROI number k on
RECURSIVE UpdateROIs(_, _, _, _, _)
UpdateROIs(k, acc, i, fr, failAt) ==
    IF k > Len(ROIs) \/ acc.raised THEN acc
    ELSE UpdateROIs(k + 1, UpdateROI(acc, ROIs[k], i, fr, failAt), i, fr, failAt)

\* if self._maskfile is not None: self._maskfile.writeFrame(M)
WriteFrame_skipblank(r, failAt) ==
    IF r.raised THEN EngineState(TRUE, masknames, r.rf, maskfile, buffer, nframe)
    ELSE IF maskfile.st = "None" \/ r.M = ZeroFrame
    THEN EngineState(FALSE, masknames, r.rf, maskfile, buffer, nframe)
    ELSE IF failAt = "file" \/ maskfile.st # "open"
    THEN EngineState(TRUE, masknames, r.rf, maskfile, buffer, nframe)
    ELSE EngineState(FALSE, masknames, r.rf,
                     [maskfile EXCEPT !.frames = Append(@, r.M)], buffer, nframe)

WriteFrame_attempt(r, failAt) ==
    IF r.raised THEN EngineState(TRUE, masknames, r.rf, maskfile, buffer, nframe)
    ELSE IF failAt = "file" \/ maskfile.st # "open"
    THEN EngineState(TRUE, masknames, r.rf, maskfile, buffer, nframe)
    ELSE EngineState(FALSE, masknames, r.rf,
                     [maskfile EXCEPT !.frames = Append(@, r.M)], buffer, nframe)

WriteFrame(r, failAt) ==
    IF r.raised THEN EngineState(TRUE, masknames, r.rf, maskfile, buffer, nframe)
    ELSE IF maskfile.st = "None"
    THEN EngineState(FALSE, masknames, r.rf, maskfile, buffer, nframe)
    ELSE IF failAt = "file" \/ maskfile.st # "open"
    THEN EngineState(TRUE, masknames, r.rf, maskfile, buffer, nframe)
    ELSE EngineState(FALSE, masknames, r.rf,
                     [maskfile EXCEPT !.frames = Append(@, r.M)], buffer, nframe)

\* Pixylation.__update__; failAt names the sink whose write the environment
\* fails ("file" for the video writer), or is "none"
Pixylation__update__(i, fr, failAt) ==
    WriteFrame(UpdateROIs(1, [rf |-> resultfiles, M |-> ZeroFrame, raised |-> FALSE],
                          i, fr, failAt),
               failAt)

\* the sinks __done__ closes, in its order: dict(file=self._maskfile) first,
\* then self._resultfiles in insertion order (the order of the ROIs)
CloseOrder == <<"file">> \o [k \in 1..Len(ROIs) |-> ROIs[k].name]

\* force_close(fp) for the sink called name
CloseOne(acc, name, c) ==
    IF name = "file" THEN [rf |-> acc.rf, mf |-> c.fp, raised |-> c.raised]
    ELSE [rf |-> [acc.rf EXCEPT ![name] = c.fp], mf |-> acc.mf, raised |-> c.raised]

CloseSink_videoonly(acc, name, fails) ==
    IF name = "file" THEN CloseOne(acc, name, force_close(acc.mf, name \in fails))
    ELSE acc

CloseSink(acc, name, fails) ==
    IF name = "file" THEN CloseOne(acc, name, force_close(acc.mf, name \in fails))
    ELSE IF acc.rf[name].st = "None" THEN acc
    ELSE CloseOne(acc, name, force_close(acc.rf[name], name \in fails))

\* the two nested for loops of __done__, from sink number k of CloseOrder on;
\* fails is the set of sinks whose close() raises
RECURSIVE CloseAll(_, _, _)
CloseAll(k, acc, fails) ==
    IF k > Len(CloseOrder) \/ acc.raised THEN acc
    ELSE CloseAll(k + 1, CloseSink(acc, CloseOrder[k], fails), fails)

DoneState(c) == EngineState(c.raised, masknames, c.rf, c.mf, buffer, nframe)

\* Pixylation.__done__
Pixylation__done__(err, fails) ==
    DoneState(CloseAll(1, [rf |-> resultfiles, mf |-> maskfile, raised |-> FALSE], fails))

\* ------------------------------------------------------------ Projection
\* Projection.__start__ (projtype is not "magenta_scale")
Projection__start__ == EngineState(FALSE, masknames, resultfiles, maskfile, -1, nframe)

\* Projection.__update__
Projection__update__(i) ==
    IF buffer = -1 THEN EngineState(FALSE, masknames, resultfiles, maskfile, 1, nframe)
    ELSE IF projtype = "mean"
    THEN EngineState(FALSE, masknames, resultfiles, maskfile, buffer + 1, i)
    ELSE EngineState(FALSE, masknames, resultfiles, maskfile, buffer + 1, nframe)

\* Projection.__done__: ensure_directory or imsave may fail (~ok); for "mean"
\* reading an unset _nframe raises AttributeError and dividing None raises
\* TypeError
Projection__done__(err, ok) ==
    IF \/ ~ok
       \/ projtype = "mean" /\ (nframe = -1 \/ buffer = -1)
    THEN EngineState(TRUE, masknames, resultfiles, maskfile, buffer, nframe)
    ELSE EngineState(FALSE, masknames, resultfiles, maskfile, -1, nframe)

\* --------------------------------------------- an AbstractBatch subclass
\* The hooks __start__, __update__ and __done__ of AbstractBatch are there to
\* be overridden by a subclass: here each one ends normally (ok) or raises,
\* and keeps no state.
Subclass__start__(ok) == EngineState(~ok, masknames, resultfiles, maskfile, buffer, nframe)

Subclass__update__(i, ok) == EngineState(~ok, masknames, resultfiles, maskfile, buffer, nframe)

Subclass__done__(err, ok) == EngineState(~ok, masknames, resultfiles, maskfile, buffer, nframe)

\* ------------------------------------------------ the hooks of the engine
\* What the environment decides during a hook.  ok: the work of the hook
\* itself succeeds (the hook of the subclass; the output of Projection).
\* Only an open sink can fail a write or a close().
OpenSinks ==
    { n \in DOMAIN resultfiles : resultfiles[n].st = "open" }
    \cup (IF maskfile.st = "open" THEN {"file"} ELSE {})

StartEnv ==
    IF command = "pixylation" THEN PixStartEnv
    ELSE [ok : IF command = "subclass" THEN BOOLEAN ELSE {TRUE},
          open : {[n \in NonEmptyNames |-> "ok"]},
          video : {TRUE}]

UpdateEnv ==
    IF command = "pixylation" THEN {"none"} \cup OpenSinks
    ELSE IF command = "subclass" THEN {"none", "raise"}
    ELSE {"none"}

DoneEnv ==
    IF command = "pixylation"
    THEN [closes : SUBSET OpenSinks, ok : {TRUE}]
    ELSE [closes : {{}}, ok : BOOLEAN]

\* self.proc.__start__(self.name)
Start(env) ==
    IF command = "pixylation" THEN Pixylation__start__(env)
    ELSE IF command = "projection" THEN Projection__start__
    ELSE Subclass__start__(env.ok)

\* self.__update__(i, frame)
Update(i, fr, env) ==
    IF command = "pixylation" THEN Pixylation__update__(i, fr, env)
    ELSE IF command = "projection" THEN Projection__update__(i)
    ELSE Subclass__update__(i, env = "none")

\* self.proc.__done__(self.name, err=(exc is not None))
Done(err, env) ==
    IF command = "pixylation" THEN Pixylation__done__(err, env.closes)
    ELSE IF command = "projection" THEN Projection__done__(err, env.ok)
    ELSE Subclass__done__(err, env.ok)

\* the engine is left as the hook left it
EngineBecomes(e) ==
    /\ masknames' = e.masknames
    /\ resultfiles' = e.resultfiles
    /\ maskfile' = e.maskfile
    /\ buffer' = e.buffer
    /\ nframe' = e.nframe

\* ------------------------------------------ the legacy engine, videobatch.py
\* The Pixylation of src/videobatch.py works on whole-frame arrays a[y][x]
\* and 1-based coordinate grids; its hue and luma tables are built by its own
\* _initialize_tables.
LegacyW == 2       \* width of the frames given to both engines
LegacyH == 2       \* height of the frames given to both engines

\* _Htable[R,G,B] of the legacy module
Legacy_HueOf(R, G, B, m, D) ==
    IF D = 0 THEN -1
    ELSE IF m = B THEN Around(60 * (D + (G - R)), D)
    ELSE IF m = R THEN Around(60 * (3 * D + (B - G)), D)
    ELSE Around(60 * (5 * D + (R - B)), D)

Legacy_Htable(p) ==
    Legacy_HueOf(p[1], p[2], p[3], Min2(p[1], Min2(p[2], p[3])),
                 Max2(p[1], Max2(p[2], p[3])) - Min2(p[1], Min2(p[2], p[3])))

\* _Ltable[R,G,B] of the legacy module, in units of 1/255000
Legacy_Ltable(p) == 212 * p[1] + 701 * p[2] + 87 * p[3]

\* as_HL: the hue and the luminance arrays of a frame
as_HL(fr) ==
    [H |-> [y \in DOMAIN fr |-> [x \in DOMAIN fr[y] |-> Legacy_Htable(fr[y][x])]],
     L |-> [y \in DOMAIN fr |-> [x \in DOMAIN fr[y] |-> Legacy_Ltable(fr[y][x])]]]

\* Mask.__init__
Mask(name, onset, offset) == [name |-> name, onset |-> onset, offset |-> offset]

\* Mask.apply
Mask_apply(mask, hues) ==
    [y \in DOMAIN hues |-> [x \in DOMAIN hues[y] |->
        hues[y][x] >= mask.onset /\ hues[y][x] < mask.offset]]

\* Mask.as_color: the 8-bit RGB that matplotlib's hsv colormap gives at
\* (onset + offset)/720, for the hue intervals of the configurations
as_color(mask) ==
    IF mask.onset + mask.offset = 60 THEN <<255, 125, 0>>
    ELSE IF mask.onset + mask.offset = 240 THEN <<8, 255, 0>>
    ELSE IF mask.onset + mask.offset = 130 THEN <<234, 255, 0>>
    ELSE <<255, 0, 0>>

\* ROI.__init__ of the legacy module: ROI(**v)
Legacy_ROI(specs) == [x |-> specs.x, y |-> specs.y, w |-> specs.w, h |-> specs.h]

\* ROI.is_empty of the legacy module
Legacy_is_empty(roi) == roi.w * roi.h <= 1

\* ROI.apply of the legacy module, for x, y, w, h >= 0: the four slices are
\* set to False
ROI_apply(roi, values) ==
    [y \in DOMAIN values |-> [x \in DOMAIN values[y] |->
        IF \/ y < roi.y
           \/ y >= roi.y + roi.h
           \/ x < roi.x
           \/ x >= roi.x + roi.w
        THEN FALSE ELSE values[y][x]]]

\* h, w, _ = frame.shape
Shape(fr) == [h |-> Cardinality(DOMAIN fr), w |-> Cardinality(DOMAIN fr[0])]

\* numpy.meshgrid(arange(1, w+1), arange(1, h+1), indexing='xy')
meshgrid_from0(fr) ==
    [xpos |-> [y \in DOMAIN fr |-> [x \in DOMAIN fr[y] |-> x]],
     ypos |-> [y \in DOMAIN fr |-> [x \in DOMAIN fr[y] |-> y]]]

meshgrid(fr) ==
    [xpos |-> [y \in DOMAIN fr |-> [x \in DOMAIN fr[y] |-> x + 1]],
     ypos |-> [y \in DOMAIN fr |-> [x \in DOMAIN fr[y] |-> y + 1]]]

\* numpy.count_nonzero(_match)
Legacy_count_nonzero(match) ==
    Cardinality({ q \in (DOMAIN match) \X (DOMAIN match[0]) : match[q[1]][q[2]] })

\* (a[_match] * b[_match]).sum(): boolean indexing takes the pixels row by
\* row; k pixels of the w-wide arrays are summed
RECURSIVE MatchedSum(_, _, _, _, _)
MatchedSum(a, b, match, w, k) ==
    IF k = 0 THEN 0
    ELSE MatchedSum(a, b, match, w, k - 1)
         + (IF match[(k - 1) \div w][(k - 1) % w]
            THEN a[(k - 1) \div w][(k - 1) % w] * b[(k - 1) \div w][(k - 1) % w]
            ELSE 0)

Ones(fr) == [y \in DOMAIN fr |-> [x \in DOMAIN fr[y] |-> 1]]

\* numpy.zeros(frame.shape)
Zeros(fr) == [y \in DOMAIN fr |-> [x \in DOMAIN fr[y] |-> <<0, 0, 0>>]]

\* M[_match,:] = color
SetMatched(M, match, color) ==
    [y \in DOMAIN M |-> [x \in DOMAIN M[y] |-> IF match[y][x] THEN color ELSE M[y][x]]]

\* the body of the loop over self._masknames in the legacy __update__ for
\* one mask, _match being roi.apply(masked[maskname].copy())
Legacy_MatchValues(grid, L, match, mask, M) ==
    IF Legacy_count_nonzero(match) > 0
    THEN [values |->
            <<Format4(MatchedSum(grid.xpos, L, match, Shape(L).w, Shape(L).w * Shape(L).h),
                      MatchedSum(Ones(L), L, match, Shape(L).w, Shape(L).w * Shape(L).h)),
              Format4(MatchedSum(grid.ypos, L, match, Shape(L).w, Shape(L).w * Shape(L).h),
                      MatchedSum(Ones(L), L, match, Shape(L).w, Shape(L).w * Shape(L).h))>>,
          M |-> SetMatched(M, match, as_color(mask))]
    ELSE [values |-> <<NaN, NaN>>, M |-> M]

\* for maskname in self._masknames, from the j-th name on
RECURSIVE Legacy_ForMasks(_, _, _, _, _, _)
Legacy_ForMasks(obj, roi, grid, HL, j, acc) ==
    IF j > Len(obj.masknames) THEN acc
    ELSE Legacy_ForMasks(obj, roi, grid, HL, j + 1,
            AppendValues(acc,
                Legacy_MatchValues(grid, HL.L,
                                   ROI_apply(roi, Mask_apply(obj.masks[j], HL.H)),
                                   obj.masks[j], acc.M)))

\* no legacy object
NoLegacy ==
    [st |-> "none", masks |-> <<>>, roi |-> Legacy_ROI([x |-> 0, y |-> 0, w |-> 1, h |-> 1]),
     masknames |-> <<>>, grid |-> <<>>, resultfile |-> NoSink, maskfile |-> NoVideo]

\* Pixylation.__init__ of the legacy module, for a configuration with the
\* masks ms and one ROI, named "roi", of the specs given
Legacy_Pixylation__init__(ms, specs) ==
    [NoLegacy EXCEPT !.st = "new",
                     !.masks = [j \in 1..Len(ms) |-> Mask(ms[j].name, ms[j].onset, ms[j].offset)],
                     !.roi = Legacy_ROI(specs)]

\* Pixylation.__start__ of the legacy module, every file opening: _xpos is
\* reset, the result file of a non-empty ROI gets its header, and no result
\* file at all is a RuntimeError
Legacy_Pixylation__start__(obj) ==
    IF Legacy_is_empty(obj.roi)
    THEN [obj EXCEPT !.st = "raised", !.grid = <<>>, !.masknames = MaskNames(obj.masks)]
    ELSE [obj EXCEPT !.st = "started", !.grid = <<>>,
                     !.masknames = MaskNames(obj.masks),
                     !.resultfile = [st |-> "open",
                                     lines |-> <<HeaderLine(MaskNames(obj.masks))>>],
                     !.maskfile = [st |-> "open", frames |-> <<>>]]

\* the legacy __update__ after the grids exist
Legacy_UpdateWith(obj, i, fr, grid) ==
    LET v == Legacy_ForMasks(obj, obj.roi, grid, as_HL(fr), 1,
                             [values |-> <<>>, M |-> Zeros(fr)])
    IN  [obj EXCEPT !.st = "updated",
                    !.grid = grid,
                    !.resultfile.lines = Append(@, RowLine(i, v.values)),
                    !.maskfile.frames = Append(@, v.M)]

\* Pixylation.__update__ of the legacy module
Legacy_Pixylation__update__(obj, i, fr) ==
    Legacy_UpdateWith(obj, i, fr, IF obj.grid = <<>> THEN meshgrid(fr) ELSE obj.grid)

\* ------------------------------------------------------------- Processor
NewJob ==
    [reader |-> [st |-> "None"],  \* Processor.reader
     entered |-> FALSE,           \* __enter__ has returned
     startRaised |-> FALSE,       \* __start__ has raised
     doneCalls |-> 0,             \* calls of __done__
     pending |-> "none",          \* the exception pending when __exit__ was called
     doneRaised |-> FALSE,        \* __done__ has raised
     readerAtDone |-> "None",     \* the state of the reader when __done__ was called
     ret |-> "none",              \* what __exit__ has returned
     out |-> "none"]              \* the exception that has left the with statement

\* AbstractBatch.__init__ raises for an empty src
AbstractBatch__init__(src) == [raised |-> Len(src) = 0]

\* Pixylation.__init__: the constructor of the superclass, then the color
\* masks and the ROIs are built from the configuration (colors, rois) and
\* an empty dict of either raises
Pixylation__init__lenient(src, colors, rois) == AbstractBatch__init__(src)

Pixylation__init__(src, colors, rois) ==
    [raised |-> \/ AbstractBatch__init__(src).raised
                \/ Len(colors) = 0
                \/ Len(rois) = 0]

\* the state of a run before the batch object is constructed: the
\* configuration names no source file or NumFiles of them and, for
\* Pixylation, holds color masks and ROIs or none
Init ==
    /\ sources \in {0, NumFiles}
    /\ tables = NoTables
    /\ rect = [x |-> 0, y |-> 0, w |-> 0, h |-> 0]
    /\ rgb = <<>>
    /\ hl = [H |-> <<>>, L |-> <<>>]
    /\ command \in {"pixylation", "projection", "subclass"}
    /\ \/ /\ command = "pixylation"
          /\ projtype = "max"
          /\ ROIs \in RoiConfigs \cup {<<>>}
          /\ masks \in MaskConfigs \cup {<<>>}
       \/ /\ command = "projection"
          /\ projtype \in {"max", "mean"}
          /\ ROIs = <<>>
          /\ masks = <<>>
       \/ /\ command = "subclass"
          /\ projtype = "max"
          /\ ROIs = <<>>
          /\ masks = <<>>
    /\ pc = "new"
    /\ cur = 1
    /\ job = [f \in 1..NumFiles |-> NewJob]
    /\ pulled = 0
    /\ frame = NoFrame
    /\ idx = -1
    /\ exc = "none"
    /\ leaving = "none"
    /\ updates = <<>>
    /\ seen = <<>>
    /\ openlog = [n \in RoiNames(ROIs) |-> "none"]
    /\ masknames = <<>>
    /\ resultfiles = [n \in RoiNames(ROIs) |-> NoSink]
    /\ maskfile = NoVideo
    /\ buffer = -1
    /\ nframe = -1
    /\ legacy = NoLegacy

\* proc = commands[cmd](*src, **config) in run(config): the constructor of
\* the engine returns, and proc.run() is called, or raises, and its exception
\* leaves run(config)
Construct(c) ==
    /\ pc' = IF c.raised THEN "invalid" ELSE "for"
    /\ leaving' = IF c.raised THEN "init" ELSE "none"
    /\ tables' = IF command = "pixylation" /\ ~c.raised
                 THEN _initialize_tables(tables) ELSE tables

Batch__init__ ==
    /\ pc = "new"
    /\ Construct(IF command = "pixylation"
                 THEN Pixylation__init__([k \in 1..sources |-> k], masks, ROIs)
                 ELSE AbstractBatch__init__([k \in 1..sources |-> k]))
    /\ UNCHANGED <<legacy, config, lookup, cur, job, pulled, frame, idx, exc, updates, seen,
                   openlog, engine>>

\* self.reader = _vio.FFmpegReader(self.path) raises: the exception leaves
\* __enter__ and, the with statement not being entered, leaves run()
EnterOpenFails ==
    /\ pc' = "raised"
    /\ leaving' = "open"
    /\ job' = [job EXCEPT ![cur].out = "open"]
    /\ UNCHANGED <<pulled, updates, seen, openlog, engine>>

\* the reader is open and __start__ has ended as s: an exception of
\* __start__ leaves __enter__ and run() as well
EnterStarts(env, s) ==
    /\ job' = [job EXCEPT ![cur].reader = [st |-> "open"],
                          ![cur].entered = ~s.raised,
                          ![cur].startRaised = s.raised,
                          ![cur].out = IF s.raised THEN "start" ELSE "none"]
    /\ pc' = IF s.raised THEN "raised" ELSE "body"
    /\ leaving' = IF s.raised THEN "start" ELSE "none"
    /\ pulled' = 0
    /\ updates' = <<>>
    /\ seen' = <<>>
    /\ openlog' = [n \in RoiNames(ROIs) |->
                     IF command = "pixylation" /\ env.ok /\ n \in NonEmptyNames
                     THEN env.open[n] ELSE "none"]
    /\ EngineBecomes(s)

\* Processor.__enter__, entered by the with statement of run for the next
\* path of _expandsources: the reader is opened, then __start__ is called
Processor__enter__ ==
    /\ pc = "for"
    /\ cur <= sources
    /\ \/ EnterOpenFails
       \/ \E env \in StartEnv : EnterStarts(env, Start(env))
    /\ UNCHANGED <<legacy, config, lookup, tables, cur, frame, idx, exc>>

\* the index enumerate() gives the n-th frame of the reader (n counted from 0)
enumerate_from1(n) == n + 1

enumerate(n) == n

\* Processor.__iter__, resumed by the for loop of the with body: the reader
\* yields the next frame, or its stream ends, or decoding raises.  After a
\* stream that yielded no frame the final print_status reads the unbound i
\* and raises.
Processor__iter__ ==
    /\ pc = "body"
    /\ \/ /\ pulled < MaxFrames
          /\ \E fr \in Frames :
                /\ frame' = fr
                /\ idx' = enumerate(pulled)
                /\ pulled' = pulled + 1
                /\ pc' = "update"
                /\ exc' = "none"
       \/ /\ pc' = "exit"
          /\ exc' = IF pulled = 0 THEN "unbound" ELSE "none"
          /\ UNCHANGED <<frame, idx, pulled>>
       \/ /\ pc' = "exit"
          /\ exc' = "iter"
          /\ UNCHANGED <<frame, idx, pulled>>
    /\ UNCHANGED <<legacy, config, lookup, tables, cur, job, leaving, updates, seen, openlog, engine>>

\* __update__ of Pixylation gets as far as vector_as_HL: the first ROI with
\* a result sink lies inside the frame
LooksUp ==
    /\ command = "pixylation"
    /\ \E k \in 1..Len(ROIs) :
          /\ ~NotInResultfiles(resultfiles, ROIs[k].name)
          /\ InFrame(ROIs[k])
          /\ \A j \in 1..(k - 1) : NotInResultfiles(resultfiles, ROIs[j].name)

\* __update__ has ended as u
UpdateEnds(u) ==
    /\ EngineBecomes(u)
    /\ pc' = IF u.raised THEN "exit" ELSE "body"
    /\ exc' = IF u.raised THEN "update" ELSE "none"

\* the body of the for loop in run: self.__update__(i, frame)
Call__update__ ==
    /\ pc = "update"
    /\ updates' = Append(updates, idx)
    /\ seen' = Append(seen, frame)
    /\ \E env \in UpdateEnv : UpdateEnds(Update(idx, frame, env))
    /\ tables' = IF LooksUp THEN ReadTables(tables) ELSE tables
    /\ UNCHANGED <<legacy, config, lookup, cur, job, pulled, frame, idx, leaving, openlog>>

\* The try statement of Processor.__exit__, given the exception pending in
\* the with body (pending, "none" for exc is None) and whether __done__
\* raised: the value returned (ret), whether an exception of __done__ leaves
\* __exit__ (raises) and whether force_close(self.reader) runs (closes).
ExitOutcome_nofinally(pending, doneRaised) ==
    [ret |-> IF doneRaised THEN FALSE ELSE pending = "none",
     raises |-> FALSE,
     closes |-> ~doneRaised]

ExitOutcome_noexcept(pending, doneRaised) ==
    [ret |-> pending = "none",
     raises |-> doneRaised,
     closes |-> TRUE]

ExitOutcome_true(pending, doneRaised) ==
    [ret |-> IF doneRaised THEN TRUE ELSE pending = "none",
     raises |-> FALSE,
     closes |-> TRUE]

ExitOutcome(pending, doneRaised) ==
    [ret |-> IF doneRaised THEN FALSE ELSE pending = "none",
     raises |-> FALSE,
     closes |-> TRUE]

\* the exception that leaves a with statement whose __exit__ ended as o:
\* the one __exit__ raised, else the pending one unless __exit__ returned true
WithLeaves(pending, o) ==
    IF o.raises THEN "done"
    ELSE IF pending # "none" /\ ~o.ret THEN pending
    ELSE "none"

\* the with statement is left with the exception lv, which leaves run() too;
\* without one the for loop of run goes on to the next path
RunGoesOn(lv) ==
    /\ leaving' = lv
    /\ pc' = IF lv = "none" THEN "for" ELSE "raised"
    /\ cur' = IF lv = "none" THEN cur + 1 ELSE cur

\* __exit__ after __done__ has ended as d
ExitEnds(d, o, readerFails) ==
    /\ EngineBecomes(d)
    /\ job' = [job EXCEPT
          ![cur].doneCalls = @ + 1,
          ![cur].pending = exc,
          ![cur].doneRaised = d.raised,
          ![cur].readerAtDone = job[cur].reader.st,
          ![cur].reader = IF o.closes THEN [st |-> force_close(@, readerFails).fp.st] ELSE @,
          ![cur].ret = IF o.raises THEN "none" ELSE IF o.ret THEN "True" ELSE "False",
          ![cur].out = WithLeaves(exc, o)]
    /\ RunGoesOn(WithLeaves(exc, o))

ExitAfterDone(d, readerFails) == ExitEnds(d, ExitOutcome(exc, d.raised), readerFails)

\* Processor.__exit__, called by the with statement when its body ends or
\* raises; the generator and the frame it yielded are dropped
Processor__exit__ ==
    /\ pc = "exit"
    /\ \E env \in DoneEnv, readerFails \in BOOLEAN :
          ExitAfterDone(Done(exc # "none", env), readerFails)
    /\ exc' = "none"
    /\ frame' = NoFrame
    /\ idx' = -1
    /\ UNCHANGED <<legacy, config, lookup, tables, pulled, updates, seen, openlog>>

\* _expandsources is exhausted: run() returns
RunReturn ==
    /\ pc = "for"
    /\ cur > sources
    /\ pc' = "returned"
    /\ UNCHANGED <<legacy, config, lookup, tables, cur, job, pulled, frame, idx, exc, leaving,
                   updates, seen, openlog, engine>>

Next ==
    \/ Batch__init__
    \/ Processor__enter__
    \/ Processor__iter__
    \/ Call__update__
    \/ Processor__exit__
    \/ RunReturn

Spec == Init /\ [][Next]_vars

\* ------------------------------------------------ the hue and luma tables
\* The tables that _initialize_tables fills hold 256^3 entries; they are
\* looked up here for the pixels whose channels are at or next to the ends
\* and the middle of 0..255.
Channels == {0, 1, 127, 128, 254, 255}

Pixels == { <<R, G, B>> : R \in Channels, G \in Channels, B \in Channels }

\* a Pixylation job that has not run, and a vector of two pixels
TableInit ==
    /\ sources = NumFiles
    /\ command = "pixylation"
    /\ projtype = "max"
    /\ ROIs = <<RoiWhole, RoiRight>>
    /\ masks = <<RedMask, GreenMask>>
    /\ pc = "new"
    /\ cur = 1
    /\ job = [f \in 1..NumFiles |-> NewJob]
    /\ pulled = 0
    /\ frame = NoFrame
    /\ idx = -1
    /\ exc = "none"
    /\ leaving = "none"
    /\ updates = <<>>
    /\ seen = <<>>
    /\ openlog = [n \in RoiNames(ROIs) |-> "none"]
    /\ masknames = <<>>
    /\ resultfiles = [n \in RoiNames(ROIs) |-> NoSink]
    /\ maskfile = NoVideo
    /\ buffer = -1
    /\ nframe = -1
    /\ rgb \in { <<p, q>> : p \in Pixels, q \in Pixels }
    /\ hl = [H |-> <<>>, L |-> <<>>]
    /\ rect = [x |-> 0, y |-> 0, w |-> 0, h |-> 0]
    /\ tables = NoTables
    /\ legacy = NoLegacy

\* roi_H, roi_L = vector_as_HL(...), once the tables exist
Call_vector_as_HL ==
    /\ hl.H = <<>>
    /\ tables.built > 0
    /\ hl' = vector_as_HL(rgb)
    /\ tables' = ReadTables(tables)
    /\ UNCHANGED <<legacy, config, rgb, rect, pc, cur, job, pulled, frame, idx, exc, leaving,
                   updates, seen, openlog, engine>>

\* one more Pixylation is constructed in the process: _initialize_tables()
Call__initialize_tables ==
    /\ tables.calls < MaxCalls
    /\ tables' = _initialize_tables(tables)
    /\ UNCHANGED <<legacy, config, lookup, pc, cur, job, pulled, frame, idx, exc, leaving,
                   updates, seen, openlog, engine>>

TableNext ==
    \/ Call__initialize_tables
    \/ Call_vector_as_HL

TableSpec == TableInit /\ [][TableNext]_vars

\* ------------------------------------------------- rectangular regions
\* A rectangle {x, y, w, h} of the configuration is made a RectangularROI;
\* the region is then used on a frame by crop and mark.
RoiInit ==
    /\ sources = NumFiles
    /\ command = "pixylation"
    /\ projtype = "max"
    /\ ROIs = <<>>
    /\ masks = <<RedMask, GreenMask>>
    /\ pc = "new"
    /\ cur = 1
    /\ job = [f \in 1..NumFiles |-> NewJob]
    /\ pulled = 0
    /\ frame = NoFrame
    /\ idx = -1
    /\ exc = "none"
    /\ leaving = "none"
    /\ updates = <<>>
    /\ seen = <<>>
    /\ openlog = <<>>
    /\ masknames = <<>>
    /\ resultfiles = <<>>
    /\ maskfile = NoVideo
    /\ buffer = -1
    /\ nframe = -1
    /\ rgb = <<>>
    /\ hl = [H |-> <<>>, L |-> <<>>]
    /\ tables = NoTables
    /\ rect \in [x : 0..MaxCoord, y : 0..MaxCoord, w : 0..MaxSide, h : 0..MaxSide]
    /\ legacy = NoLegacy

\* ROI(v) for a dict v: RectangularROI.__init__
Call_RectangularROI ==
    /\ ROIs = <<>>
    /\ ROIs' = <<RectangularROI("roi", rect)>>
    /\ UNCHANGED <<legacy, sources, command, projtype, masks, lookup, tables, pc, cur, job,
                   pulled, frame, idx, exc, leaving, updates, seen, openlog, engine>>

\* roi.crop(frame) and roi.mark(M, roi_match, color) for a region inside
\* the frame: the pixels are read, a frame is written, the region is not
Call_crop_mark ==
    /\ ROIs # <<>>
    /\ InFrame(ROIs[1])
    /\ rgb = <<>>
    /\ \E fr \in Frames :
          /\ rgb' = crop(ROIs[1], fr)
          /\ frame' = mark(ROIs[1], ZeroFrame, [k \in 1..Len(ROIs[1].xpos) |-> TRUE],
                           RedMask.color)
    /\ UNCHANGED <<legacy, config, hl, rect, tables, pc, cur, job, pulled, idx, exc, leaving,
                   updates, seen, openlog, engine>>

RoiNext ==
    \/ Call_RectangularROI
    \/ Call_crop_mark

RoiSpec == RoiInit /\ [][RoiNext]_vars

\* ------------------------------------------------- the two engines, side by side
\* One configuration (color masks, one rectangle "roi") is given to a
\* Pixylation of each module; each is started on a file whose sinks all open
\* and is given the same first frame.

\* frames of LegacyW x LegacyH pixels: the all-black one and those whose pixel
\* (x,y) holds the palette colour number (x + c*y + s) mod 3
LegacyFrames ==
    { [y \in 0..(LegacyH - 1) |-> [x \in 0..(LegacyW - 1) |-> Black]] } \cup
    { [y \in 0..(LegacyH - 1) |->
          [x \in 0..(LegacyW - 1) |-> Palette[((x + c * y + s) % 3) + 1]]] :
      c \in 1..2, s \in 0..2 }

LegacyInit ==
    /\ sources = 1
    /\ command = "pixylation"
    /\ projtype = "max"
    /\ masks \in MaskConfigs
    /\ rect \in [x : 0..MaxCoord, y : 0..MaxCoord, w : 0..MaxSide, h : 0..MaxSide]
    /\ ROIs = <<RectangularROI("roi", rect)>>
    /\ pc = "for"
    /\ cur = 1
    /\ job = [f \in 1..NumFiles |-> NewJob]
    /\ pulled = 0
    /\ frame \in LegacyFrames
    /\ idx = 0
    /\ exc = "none"
    /\ leaving = "none"
    /\ updates = <<>>
    /\ seen = <<>>
    /\ openlog = [n \in RoiNames(ROIs) |-> "none"]
    /\ masknames = <<>>
    /\ resultfiles = [n \in RoiNames(ROIs) |-> NoSink]
    /\ maskfile = NoVideo
    /\ buffer = -1
    /\ nframe = -1
    /\ rgb = <<>>
    /\ hl = [H |-> <<>>, L |-> <<>>]
    /\ tables = [built |-> 1, calls |-> 1, reads |-> {}]
    /\ legacy = Legacy_Pixylation__init__(masks, rect)

\* the environment of a __start__ in which every sink opens
AllOpen == [ok |-> TRUE, open |-> [n \in NonEmptyNames |-> "ok"], video |-> TRUE]

\* __start__ of the rewritten engine
Call_Pixylation__start__ ==
    /\ pc = "for"
    /\ EngineBecomes(Pixylation__start__(AllOpen))
    /\ pc' = IF Pixylation__start__(AllOpen).raised THEN "raised" ELSE "body"
    /\ UNCHANGED <<config, lookup, tables, legacy, cur, job, pulled, frame, idx, exc,
                   leaving, updates, seen, openlog>>

\* frame[self.ypos, self.xpos] raises IndexError for an index past the frame
Inside(roi, fr) ==
    \A k \in 1..Len(roi.xpos) :
        /\ roi.ypos[k] \in DOMAIN fr
        /\ roi.xpos[k] \in DOMAIN fr[0]

\* __update__ of the rewritten engine on the frame, the one ROI having its
\* result sink: crop raises, or the row and the annotated frame are written
Call_Pixylation__update__ ==
    /\ pc = "body"
    /\ pc' = "exit"
    /\ updates' = Append(updates, idx)
    /\ seen' = Append(seen, frame)
    /\ IF Inside(ROIs[1], frame)
       THEN /\ resultfiles' =
                  [resultfiles EXCEPT ![ROIs[1].name].lines =
                      Append(@, RowLine(idx, RoiValues(ROIs[1], frame, Zeros(frame)).values))]
            /\ maskfile' =
                  [maskfile EXCEPT !.frames =
                      Append(@, RoiValues(ROIs[1], frame, Zeros(frame)).M)]
            /\ exc' = "none"
            /\ tables' = ReadTables(tables)
       ELSE /\ exc' = "update"
            /\ UNCHANGED <<resultfiles, maskfile, tables>>
    /\ UNCHANGED <<config, lookup, legacy, cur, job, pulled, frame, idx, leaving,
                   openlog, masknames, buffer, nframe>>

\* __start__ of the legacy engine
Call_Legacy__start__ ==
    /\ legacy.st = "new"
    /\ legacy' = Legacy_Pixylation__start__(legacy)
    /\ UNCHANGED <<config, lookup, tables, pc, cur, job, pulled, frame, idx, exc,
                   leaving, updates, seen, openlog, engine>>

\* __update__ of the legacy engine on the frame
Call_Legacy__update__ ==
    /\ legacy.st = "started"
    /\ legacy' = Legacy_Pixylation__update__(legacy, idx, frame)
    /\ UNCHANGED <<config, lookup, tables, pc, cur, job, pulled, frame, idx, exc,
                   leaving, updates, seen, openlog, engine>>

LegacyNext ==
    \/ Call_Pixylation__start__
    \/ Call_Pixylation__update__
    \/ Call_Legacy__start__
    \/ Call_Legacy__update__

LegacySpec == LegacyInit /\ [][LegacyNext]_vars

\* ================================================================ claims
Files == 1..NumFiles

\* close() has been called on the sink or reader
Released(fp) == fp.st \in {"closed", "closefailed"}

\* the with statement for file f has been left, or was never entered
Left(f) == f < cur \/ pc \in {"for", "returned", "raised"}

\* C1: for every file whose Processor was entered, however the with body
\* ended (stream exhausted, exception of the iteration or of __update__),
\* __done__ has been called exactly once when the with statement is left, the
\* reader was still open when __done__ was called and close() has been
\* called on it afterwards, also when __done__ raised; __done__ is never
\* called twice, and never for a file that was not entered.
C1_DoneOnceThenReaderClosed ==
    \A f \in Files :
        /\ job[f].doneCalls <= 1
        /\ ~job[f].entered => job[f].doneCalls = 0
        /\ job[f].entered /\ Left(f) => job[f].doneCalls = 1
        /\ job[f].doneCalls = 1 =>
              /\ job[f].readerAtDone = "open"
              /\ Released(job[f].reader)

\* C1 witness: __update__ raised, __done__ was called once and raised too,
\* and the reader is closed
C1_Witness ==
    \E f \in Files :
        /\ job[f].entered
        /\ job[f].pending = "update"
        /\ job[f].doneCalls = 1
        /\ job[f].doneRaised
        /\ job[f].reader.st = "closed"

\* C2 (as claimed): when __start__ has raised for a file, no frame of the
\* file has been read and the reader opened for the file has been closed.
C2_StartRaisesReaderReleased ==
    \A f \in Files :
        job[f].startRaised => /\ pulled = 0
                              /\ updates = <<>>
                              /\ Released(job[f].reader)

\* C3 (as claimed): run() ends only when every path of the batch has been
\* taken up: a failure of one file does not keep the later files from
\* being processed.
C3_BatchGoesOnAfterFailure ==
    pc \in {"raised", "returned"} => \A f \in Files : f <= cur

\* C4: within a file __update__ is called with the indices 0, 1, 2, ... in
\* this order, without gap or repetition, and the generator takes a frame
\* from the reader only when __update__ has been called for every frame
\* taken before.
C4_IndicesInOrderOneFrameAtATime ==
    /\ updates = [k \in 1..Len(updates) |-> k - 1]
    /\ Len(seen) = Len(updates)
    /\ pc = "update" => pulled = Len(updates) + 1 /\ idx = Len(updates)
    /\ pc # "update" => pulled = Len(updates)

\* C4 witness: the second frame of a file has been processed by __update__
C4_Witness == pc = "body" /\ updates = <<0, 1>> /\ pulled = 2

\* C5: the value __exit__ returns is True exactly when no exception was
\* pending from the iteration or from __update__ and __done__ did not raise,
\* and is False in every other case.
C5_ExitReportsSuccessIff ==
    \A f \in Files :
        /\ job[f].doneCalls = 1 => job[f].ret \in {"True", "False"}
        /\ job[f].ret = "True" <=>
              (job[f].doneCalls = 1 /\ job[f].pending = "none" /\ ~job[f].doneRaised)

\* C5 witness: nothing failed in the body, __done__ raised, and __exit__
\* returned False
C5_Witness ==
    \E f \in Files :
        /\ job[f].pending = "none"
        /\ job[f].doneRaised
        /\ job[f].ret = "False"

\* C6: when __done__ raises, its exception does not leave the with
\* statement: the exception that leaves is the one that was pending from the
\* body (that of __update__ if __update__ raised), none if none was pending,
\* and close() has been called on the reader.
C6_DoneExceptionNeverLeaves ==
    \A f \in Files :
        /\ job[f].out # "done"
        /\ job[f].doneRaised => /\ job[f].out = job[f].pending
                                /\ Released(job[f].reader)

\* C6 witness: __update__ raised, __done__ raised after it, and the
\* exception of __update__ has left run()
C6_Witness ==
    \E f \in Files :
        /\ job[f].doneRaised
        /\ job[f].pending = "update"
        /\ job[f].out = "update"
        /\ leaving = "update"
        /\ Released(job[f].reader)

\* C7: outside the with body of a file, that is after Pixylation.__done__
\* has returned, no result sink and no video sink that __start__ opened is
\* left open, for either value of the err flag; __done__ never raises, also
\* when close() of some sinks fails, and the other sinks are then closed.
C7_DoneClosesEverySink ==
    command = "pixylation" =>
        /\ \A f \in Files : ~job[f].doneRaised
        /\ Left(cur) =>
              /\ maskfile.st # "open"
              /\ \A n \in DOMAIN resultfiles : resultfiles[n].st # "open"

\* C7 witness: __update__ raised (err is true), close() of the video sink
\* failed in __done__, and a result sink is closed all the same
C7_Witness ==
    /\ command = "pixylation"
    /\ pc = "raised"
    /\ job[cur].pending = "update"
    /\ job[cur].doneCalls = 1
    /\ maskfile.st = "closefailed"
    /\ \E n \in DOMAIN resultfiles : resultfiles[n].st = "closed"

\* __start__ has been called for the file the loop of run is at
StartCalled == job[cur].entered \/ job[cur].startRaised

\* the result sink of region n was opened by the last __start__
Opened(n) == openlog[n] \in {"ok", "writefail"}

\* C8: when Pixylation.__start__ has been called for a file and no region
\* has got an open result sink (every region is empty, or open() failed for
\* every one that is not), __start__ has raised, the exception has left
\* run(), and no frame of the file has been read or processed.
C8_StartFailsWithoutResultSink ==
    command = "pixylation" /\ cur \in Files /\ StartCalled
        /\ (\A n \in DOMAIN openlog : ~Opened(n))
    => /\ job[cur].startRaised
       /\ ~job[cur].entered
       /\ leaving = "start"
       /\ pulled = 0
       /\ updates = <<>>

\* C8 witness: open() failed for every non-empty region, there is one, and
\* __start__ has raised
C8_Witness ==
    /\ command = "pixylation"
    /\ cur \in Files
    /\ job[cur].startRaised
    /\ \E n \in DOMAIN openlog : openlog[n] = "openfail"
    /\ \A n \in DOMAIN openlog : ~Opened(n)

\* the data rows written to the result sink of region n
Rows(n) == SelectSeq(resultfiles[n].lines, LAMBDA l : l.kind = "row")

\* the last call of __update__ for this file raised
UpdateRaised == exc = "update" \/ (cur \in Files /\ job[cur].pending = "update")

\* the calls of __update__ for this file that have returned
Processed == IF UpdateRaised THEN Len(updates) - 1 ELSE Len(updates)

\* C9: when open() failed in __start__ for the result sink of one non-empty
\* region and the sink of another region opened, __start__ has not raised,
\* no line is ever written for the region that failed, and every region
\* whose sink opened has one row for each frame __update__ has processed
\* (and at most the row of the frame at which __update__ raised).
C9_FailedRegionSkippedOthersGoOn ==
    command = "pixylation" /\ cur \in Files /\ StartCalled
        /\ (\E n \in DOMAIN openlog : openlog[n] = "openfail")
        /\ (\E n \in DOMAIN openlog : Opened(n))
    => /\ job[cur].entered
       /\ ~job[cur].startRaised
       /\ \A n \in DOMAIN openlog :
             /\ openlog[n] = "openfail" =>
                   resultfiles[n].st = "None" /\ resultfiles[n].lines = <<>>
             /\ Opened(n) =>
                   /\ Len(Rows(n)) \in {Processed, Len(updates)}
                   /\ ~UpdateRaised => Len(Rows(n)) = Len(updates)

\* C9 witness: one sink failed to open, another opened, and two frames have
\* been processed with a row each for the region whose sink opened
C9_Witness ==
    /\ command = "pixylation"
    /\ pc = "body"
    /\ Len(updates) = 2
    /\ \E n, m \in DOMAIN openlog :
          /\ openlog[n] = "openfail"
          /\ openlog[m] = "ok"
          /\ Len(Rows(m)) = 2
          /\ resultfiles[n].lines = <<>>

\* the ROI and the color mask of a name
RoiNamed(n) == CHOOSE r \in { ROIs[k] : k \in 1..Len(ROIs) } : r.name = n
MaskNamed(n) == CHOOSE m \in { masks[k] : k \in 1..Len(masks) } : m.name = n

\* the positions of region n whose pixel in frame fr lies in the hue
\* interval of the color mask named c
MatchedPixels(n, c, fr) ==
    LET roi == RoiNamed(n)
        colormask == MaskNamed(c)
    IN  { p \in 1..Len(roi.xpos) :
            LET h == Htable(fr[roi.ypos[p]][roi.xpos[p]])
            IN  h >= colormask.onset /\ h < colormask.offset }

\* the luminance of the pixel at position p of region n in frame fr
LumAt(n, p, fr) == Ltable(fr[RoiNamed(n).ypos[p]][RoiNamed(n).xpos[p]])

\* the sum over the positions P of region n of the 1-indexed column (axis
\* "x") or row (axis "y") times the luminance, or of the luminance alone
RECURSIVE WeightedSum(_, _, _, _)
WeightedSum(P, n, fr, axis) ==
    IF P = {} THEN 0
    ELSE LET p == CHOOSE q \in P : TRUE
         IN  (IF axis = "x" THEN (RoiNamed(n).xpos[p] + 1) * LumAt(n, p, fr)
              ELSE IF axis = "y" THEN (RoiNamed(n).ypos[p] + 1) * LumAt(n, p, fr)
              ELSE LumAt(n, p, fr))
             + WeightedSum(P \ {p}, n, fr, axis)

\* the luminance-weighted centroid of the positions P, as two text fields
Centroid(P, n, fr) ==
    LET sw == WeightedSum(P, n, fr, "w")
    IN  << Format4(WeightedSum(P, n, fr, "x"), sw),
           Format4(WeightedSum(P, n, fr, "y"), sw) >>

\* the two fields of the color mask named c for region n in frame fr
FieldsOf(n, c, fr) ==
    LET P == MatchedPixels(n, c, fr)
    IN  IF P = {} THEN <<NaN, NaN>> ELSE Centroid(P, n, fr)

\* row j of region n is the row of frame j - 1: its index first, then for
\* the c-th color mask of the header the X and the Y of that mask, as
\* fields 2c - 1 and 2c
RowAsHeader(n, j, header) ==
    LET row == Rows(n)[j]
        fr == seen[j]
    IN  /\ row.slice = j - 1
        /\ Len(row.cols) = 2 * Len(masks)
        /\ Len(header) = 2 * Len(masks)
        /\ \A c \in 1..Len(masks) :
              /\ header[2 * c - 1][2] = "CM_X"
              /\ header[2 * c][2] = "CM_Y"
              /\ header[2 * c][1] = header[2 * c - 1][1]
              /\ <<row.cols[2 * c - 1], row.cols[2 * c]>>
                    = FieldsOf(n, header[2 * c - 1][1], fr)

\* the loop of run stands inside the with statement of the file
InFile == cur \in Files /\ job[cur].entered /\ pc \in {"body", "update", "exit"}

\* C10 (as claimed): while a file is processed by Pixylation, every region
\* with an open result sink has one data row for each frame __update__ has
\* processed (and at most the row of the frame at which __update__ raised);
\* the rows follow the header line, carry the indices 0, 1, 2, ... in order,
\* and hold two fields for each color mask, in the order of the columns of
\* the header.
C10_RowsPerFrameInHeaderOrder ==
    command = "pixylation" /\ InFile
    => LET header == HeaderLine(masknames)
       IN  \A n \in DOMAIN openlog :
              Opened(n) =>
                 LET rows == Rows(n)
                 IN  /\ Len(rows) \in {Processed, Len(updates)}
                     /\ ~UpdateRaised => Len(rows) = Len(updates)
                     /\ resultfiles[n].lines = <<header>> \o rows
                     /\ \A j \in 1..Len(rows) : RowAsHeader(n, j, header.cols)

\* the turns <<k, j>> of the two nested loops of __update__ (ROI number k,
\* color mask number j) in which the pixel (x, y) of frame fr is marked: the
\* ROI has a result sink and holds the pixel, and the hue of the pixel lies
\* in the interval of the color mask
MarkingTurns(fr, x, y) ==
    { t \in (1..Len(ROIs)) \X (1..Len(masks)) :
        /\ Opened(ROIs[t[1]].name)
        /\ \E p \in 1..Len(ROIs[t[1]].xpos) :
              ROIs[t[1]].xpos[p] = x /\ ROIs[t[1]].ypos[p] = y
        /\ Htable(fr[y][x]) >= masks[t[2]].onset
        /\ Htable(fr[y][x]) < masks[t[2]].offset }

\* the last of a non-empty set of turns, in the order of the loops
LastTurn(T) ==
    CHOOSE t \in T : \A u \in T : u[1] < t[1] \/ (u[1] = t[1] /\ u[2] <= t[2])

\* the annotated frame of frame fr: zero where no turn marks the pixel, the
\* display color of the last turn that marks it elsewhere
Annotated(fr) ==
    [y \in DOMAIN fr |-> [x \in DOMAIN fr[y] |->
        IF MarkingTurns(fr, x, y) = {} THEN Black
        ELSE masks[LastTurn(MarkingTurns(fr, x, y))[2]].color]]

\* C11: while a file is processed by Pixylation with an open video sink,
\* the video sink holds exactly one annotated frame for each frame
\* __update__ has processed, in order; the j-th one is the union of the
\* marks of all regions for the j-th input frame (all zero when no region
\* had a matching pixel), and it is written only when every region with a
\* result sink has got its row for that frame.
C11_OneAnnotatedFramePerInputFrame ==
    command = "pixylation" /\ InFile /\ maskfile.st # "None"
    => /\ Len(maskfile.frames) = Processed
       /\ \A j \in 1..Len(maskfile.frames) : maskfile.frames[j] = Annotated(seen[j])
       /\ \A n \in DOMAIN openlog :
             Opened(n) => Len(Rows(n)) >= Len(maskfile.frames)

\* C11 witness: two frames processed, the first without any matching pixel
\* and the second with one, and the video sink holds the all-zero frame and
\* then a marked one
C11_Witness ==
    /\ command = "pixylation"
    /\ pc = "body"
    /\ Len(updates) = 2
    /\ Len(maskfile.frames) = 2
    /\ maskfile.frames[1] = ZeroFrame
    /\ maskfile.frames[2] # ZeroFrame

\* C12: when Pixylation.__start__ has been called for a file, a result sink
\* opened and the video sink did not (self._maskfile stays None), __start__
\* has not raised; every frame __update__ has processed has its row in
\* every result sink; nothing is written to the video sink, and no call of
\* __update__ fails on account of it: a call that raised left some region
\* without its row.
C12_VideoSinkFailureNotFatal ==
    command = "pixylation" /\ cur \in Files /\ StartCalled
        /\ (\E n \in DOMAIN openlog : Opened(n))
        /\ maskfile.st = "None"
    => /\ job[cur].entered
       /\ ~job[cur].startRaised
       /\ maskfile.frames = <<>>
       /\ \A n \in DOMAIN openlog :
             Opened(n) => Len(Rows(n)) \in {Processed, Len(updates)}
       /\ UpdateRaised =>
             \E n \in DOMAIN openlog : Opened(n) /\ Len(Rows(n)) < Len(updates)

\* C12 witness: the video sink did not open, a result sink did, and two
\* frames have been processed with a row each
C12_Witness ==
    /\ command = "pixylation"
    /\ pc = "body"
    /\ job[cur].entered
    /\ maskfile.st = "None"
    /\ Len(updates) = 2
    /\ \E n \in DOMAIN openlog : openlog[n] = "ok" /\ Len(Rows(n)) = 2

\* C13: while a file is processed, in every row written for a region, for
\* every color mask that at least one pixel of the region matches in the frame of the row, the pair of
\* fields of the mask is the luminance-weighted centroid
\* (sum x*lum / sum lum, sum y*lum / sum lum) over exactly the matched pixels
\* of the region, x and y being the column and row counted from 1.
C13_CentroidOverMatchedPixels ==
    command = "pixylation" /\ InFile
    => \A n \in DOMAIN openlog : \A j \in 1..Len(Rows(n)) : \A c \in 1..Len(masknames) :
          MatchedPixels(n, masknames[c], seen[j]) # {} =>
             <<Rows(n)[j].cols[2 * c - 1], Rows(n)[j].cols[2 * c]>>
                = Centroid(MatchedPixels(n, masknames[c], seen[j]), n, seen[j])

\* C13 witness: a row holds a centroid that lies between two columns, drawn
\* towards the brighter of two matched pixels
C13_Witness ==
    /\ command = "pixylation"
    /\ cur \in Files
    /\ job[cur].entered
    /\ \E n \in DOMAIN openlog : \E j \in 1..Len(Rows(n)) :
          /\ ~Rows(n)[j].cols[1].nan
          /\ Rows(n)[j].cols[1].e4 > 15000
          /\ Rows(n)[j].cols[1].e4 < 20000

\* the pixels <<x, y>> of a region
PixelsOf(roi) == { <<roi.xpos[p], roi.ypos[p]>> : p \in 1..Len(roi.xpos) }

\* no other region with a result sink shares a pixel with region n
Alone(n) ==
    \A m \in DOMAIN openlog :
        m # n /\ Opened(m) => PixelsOf(RoiNamed(m)) \cap PixelsOf(RoiNamed(n)) = {}

\* C14: while a file is processed, in every row written for a region, the
\* two fields of a color mask that no pixel of the region matches in the frame of the row are NaN; in
\* the annotated frame no pixel carries the display color of a color mask
\* unless that mask matches the pixel in a region holding it; and where no
\* color mask matches any pixel of a region that no other region overlaps,
\* all pixels of the region are zero in the annotated frame.
C14_NoMatchGivesNaNAndNoMark ==
    command = "pixylation" /\ InFile
    => /\ \A n \in DOMAIN openlog : \A j \in 1..Len(Rows(n)) : \A c \in 1..Len(masknames) :
             MatchedPixels(n, masknames[c], seen[j]) = {} =>
                Rows(n)[j].cols[2 * c - 1] = NaN /\ Rows(n)[j].cols[2 * c] = NaN
       /\ \A j \in 1..Len(maskfile.frames) :
             /\ \A c \in 1..Len(masks) : \A y \in 0..(FrameH - 1) : \A x \in 0..(FrameW - 1) :
                   maskfile.frames[j][y][x] = masks[c].color =>
                      \E n \in DOMAIN openlog :
                         /\ Opened(n)
                         /\ \E p \in MatchedPixels(n, masks[c].name, seen[j]) :
                               RoiNamed(n).xpos[p] = x /\ RoiNamed(n).ypos[p] = y
             /\ \A n \in DOMAIN openlog :
                   /\ Opened(n)
                   /\ Alone(n)
                   /\ \A c \in 1..Len(masks) : MatchedPixels(n, masks[c].name, seen[j]) = {}
                   => \A q \in PixelsOf(RoiNamed(n)) : maskfile.frames[j][q[2]][q[1]] = Black

\* C14 witness: for a frame with a colored pixel outside the only region
\* with a result sink, no color mask matches in the region: its row holds
\* NaN only and the annotated frame written is all zero
C14_Witness ==
    /\ command = "pixylation"
    /\ cur \in Files
    /\ job[cur].entered
    /\ Len(maskfile.frames) >= 1
    /\ seen[1] # ZeroFrame
    /\ maskfile.frames[1] = ZeroFrame
    /\ \E n \in DOMAIN openlog :
          /\ Opened(n)
          /\ Alone(n)
          /\ Len(Rows(n)) >= 1
          /\ \A k \in 1..Len(Rows(n)[1].cols) : Rows(n)[1].cols[k] = NaN

\* the color masks, by their number in declaration order, whose hue
\* interval holds the hue of pixel px
MatchingMasks(px) ==
    { c \in 1..Len(masks) : Htable(px) >= masks[c].onset /\ Htable(px) < masks[c].offset }

\* the greatest number of a non-empty set of numbers
Latest(S) == CHOOSE c \in S : \A d \in S : d <= c

\* C15: while a file is processed, when the hue of a pixel of a region
\* lies in the hue intervals of two (or more) color masks, the row of the region for that frame holds,
\* for each of these masks, the centroid over a matched set that has the
\* pixel in it (no mask takes the pixel away from another), and in the
\* annotated frame the pixel carries the display color of the one of these
\* masks that is declared last.
C15_OverlappingClassesLaterColorWins ==
    command = "pixylation" /\ InFile
    => \A n \in DOMAIN openlog : \A j \in 1..Len(Rows(n)) :
          \A p \in 1..Len(RoiNamed(n).xpos) :
             LET px == seen[j][RoiNamed(n).ypos[p]][RoiNamed(n).xpos[p]]
             IN  Cardinality(MatchingMasks(px)) >= 2 =>
                    /\ \A c \in MatchingMasks(px) :
                          /\ p \in MatchedPixels(n, masknames[c], seen[j])
                          /\ Rows(n)[j].cols[2 * c - 1] # NaN
                          /\ <<Rows(n)[j].cols[2 * c - 1], Rows(n)[j].cols[2 * c]>>
                                = Centroid(MatchedPixels(n, masknames[c], seen[j]), n, seen[j])
                    /\ j <= Len(maskfile.frames) =>
                          maskfile.frames[j][RoiNamed(n).ypos[p]][RoiNamed(n).xpos[p]]
                             = masks[Latest(MatchingMasks(px))].color

\* C15 witness: "warm" is declared first and "red" second, a red pixel of a
\* region matches both, both have a centroid in the row, and the pixel
\* carries the color of "red" in the annotated frame
C15_Witness ==
    /\ command = "pixylation"
    /\ cur \in Files
    /\ job[cur].entered
    /\ masks = <<WarmMask, RedMask>>
    /\ \E n \in DOMAIN openlog : \E j \in 1..Len(Rows(n)) :
          \E p \in 1..Len(RoiNamed(n).xpos) :
             /\ j <= Len(maskfile.frames)
             /\ seen[j][RoiNamed(n).ypos[p]][RoiNamed(n).xpos[p]] = Red
             /\ Rows(n)[j].cols[1] # NaN
             /\ Rows(n)[j].cols[3] # NaN
             /\ maskfile.frames[j][RoiNamed(n).ypos[p]][RoiNamed(n).xpos[p]] = RedMask.color

\* the three channels of a pixel are equal
Grey(p) == p[1] = p[2] /\ p[2] = p[3]

\* C16 (as claimed): the hue the table holds for a pixel is -1 when the
\* three channels are equal, and is an integer h with 0 <= h < 360 for every
\* other pixel.
C16_HueInRangeOrSentinel ==
    \A k \in 1..Len(hl.H) :
        /\ Grey(rgb[k]) => hl.H[k] = -1
        /\ ~Grey(rgb[k]) => hl.H[k] >= 0 /\ hl.H[k] < 360

\* pixel q is pixel p with one channel raised and the other two kept
RaisesOneChannel(p, q) ==
    \E ch \in 1..3 : q[ch] > p[ch] /\ \A o \in (1..3) \ {ch} : q[o] = p[o]

\* C17: the luminance the table holds for a pixel lies between 0 and 1
\* (0 and 255000 in units of 1/255000), and a pixel that differs from
\* another by one raised channel has no lower luminance than the other.
C17_LuminanceInRangeAndMonotone ==
    hl.L # <<>> =>
        /\ \A k \in 1..Len(hl.L) : hl.L[k] >= 0 /\ hl.L[k] <= 255000
        /\ RaisesOneChannel(rgb[1], rgb[2]) => hl.L[2] >= hl.L[1]

\* C17 witness: white has luminance 1, and white with its blue channel
\* lowered by one has less
C17_Witness ==
    /\ rgb = << <<255, 255, 254>>, <<255, 255, 255>> >>
    /\ hl.L # <<>>
    /\ hl.L[2] = 255000
    /\ hl.L[1] < hl.L[2]

\* C18 (as claimed): is_empty() is true exactly for a region with fewer
\* than 2 coordinates, and __start__ opens no result sink for such a region.
C18_EmptyIffFewerThanTwo ==
    command = "pixylation" /\ cur \in Files /\ StartCalled
    => \A k \in 1..Len(ROIs) :
          /\ is_empty(ROIs[k]) <=> Len(ROIs[k].xpos) < 2
          /\ Len(ROIs[k].xpos) < 2 => ~Opened(ROIs[k].name)

\* the rectangles with w = 0 or h = 0 a configuration may hold
ZeroSpecs ==
    { specs \in [x : 0..1, y : 0..1, w : 0..FrameW, h : 0..FrameH] :
        specs.w = 0 \/ specs.h = 0 }

\* the coordinates RectangularROI.__init__ builds from these
ZeroShapes ==
    { << RectangularROI("", specs).xpos, RectangularROI("", specs).ypos >> :
        specs \in ZeroSpecs }

\* the region was built by RectangularROI.__init__ from specs with w = 0 or
\* h = 0
ZeroSized(roi) == <<roi.xpos, roi.ypos>> \in ZeroShapes

\* C19: when Pixylation.__start__ has been called for a file, a region
\* configured with w = 0 or h = 0 has no result sink (open() was not tried
\* for it) and no line is ever written for it; and when the result sink of
\* another region opened, __start__ has not raised.
C19_ZeroSizedRegionHasNoOutput ==
    command = "pixylation" /\ cur \in Files /\ StartCalled
    => \A k \in 1..Len(ROIs) :
          ZeroSized(ROIs[k]) =>
             /\ openlog[ROIs[k].name] = "none"
             /\ resultfiles[ROIs[k].name] = NoSink
             /\ (\E n \in DOMAIN openlog : Opened(n)) =>
                   job[cur].entered /\ ~job[cur].startRaised

\* C19 witness: a region with w = 0 next to a region whose sink opened, two
\* frames processed, two rows for the one and nothing for the other
C19_Witness ==
    /\ command = "pixylation"
    /\ pc = "body"
    /\ Len(updates) = 2
    /\ \E k, m \in 1..Len(ROIs) :
          /\ ZeroSized(ROIs[k])
          /\ resultfiles[ROIs[k].name] = NoSink
          /\ openlog[ROIs[m].name] = "ok"
          /\ Len(Rows(ROIs[m].name)) = 2

\* C20: once the constructor of a Pixylation job has been called with no
\* source file, with no color mask or with no region, it has raised: the
\* exception has left run(config), proc.run() is never called, no reader
\* and no sink is ever opened and no frame is ever read or processed.
C20_InvalidConfigurationFailsAtConstruction ==
    command = "pixylation" /\ pc # "new"
        /\ (sources = 0 \/ masks = <<>> \/ ROIs = <<>>)
    => /\ pc = "invalid"
       /\ leaving = "init"
       /\ cur = 1
       /\ \A f \in Files : job[f] = NewJob
       /\ \A n \in DOMAIN resultfiles : resultfiles[n] = NoSink
       /\ maskfile = NoVideo
       /\ pulled = 0
       /\ updates = <<>>

\* C20 witness: source files and color masks are given, no region is, and
\* the constructor has raised
C20_Witness ==
    /\ command = "pixylation"
    /\ pc = "invalid"
    /\ sources > 0
    /\ masks # <<>>
    /\ ROIs = <<>>

\* the fields of the row of region n for frame fr, from the c-th color mask
\* of the configuration on
RECURSIVE FieldsFrom(_, _, _)
FieldsFrom(n, fr, c) ==
    IF c > Len(masks) THEN <<>>
    ELSE FieldsOf(n, masks[c].name, fr) \o FieldsFrom(n, fr, c + 1)

\* the lines that the configuration and the frames fs determine for the
\* result sink of region n: the header, then one row for each frame
LinesFor(n, fs) ==
    <<[kind |-> "header", slice |-> -1, cols |-> JoinEntries(MaskNames(masks), 1)]>>
    \o [j \in 1..Len(fs) |->
          [kind |-> "row", slice |-> j - 1, cols |-> FieldsFrom(n, fs[j], 1)]]

\* C21: for every file of a batch, the first or a later one, the lines in
\* the result sink of a region are those that the configuration (regions and
\* color masks) and the frames __update__ has processed determine, and
\* nothing else: two runs over the same frames with the same configuration
\* write the same lines.
C21_ResultLinesDeterminedByFramesAndConfig ==
    command = "pixylation" /\ InFile
    => \A n \in DOMAIN openlog :
          openlog[n] = "ok" =>
             \/ resultfiles[n].lines = LinesFor(n, SubSeq(seen, 1, Processed))
             \/ resultfiles[n].lines = LinesFor(n, seen)

\* C21 witness: the second file of a batch, processed after the first one
\* has been finished, holds its header and two rows
C21_Witness ==
    /\ command = "pixylation"
    /\ cur = 2
    /\ pc = "body"
    /\ job[1].doneCalls = 1
    /\ Len(updates) = 2
    /\ \E n \in DOMAIN openlog :
          /\ openlog[n] = "ok"
          /\ Len(resultfiles[n].lines) = 3
          /\ resultfiles[n].lines[3].cols[1] # NaN

\* C22: the files of a batch are taken one at a time, in order: a file is
\* taken up only when the one before it has been finished (__done__ called)
\* and close() has been called on its reader; no file after the current one
\* has been touched; at most one reader is open at any time; and when the
\* loop of run stands between two files, where __start__ of the next file is
\* about to run, no result sink and no video sink is open.
C22_OneFileAtATimeInOrder ==
    /\ \A f \in Files :
          /\ f < cur => job[f].doneCalls = 1 /\ Released(job[f].reader)
          /\ f > cur => job[f] = NewJob
    /\ Cardinality({ f \in Files : job[f].reader.st = "open" }) <= 1
    /\ pc = "for" =>
          /\ maskfile.st # "open"
          /\ \A n \in DOMAIN resultfiles : resultfiles[n].st # "open"

\* C22 witness: the second file is being processed with its reader and a
\* result sink open, the reader of the first file is closed
C22_Witness ==
    /\ command = "pixylation"
    /\ cur = 2
    /\ pc = "body"
    /\ job[1].reader.st = "closed"
    /\ job[2].reader.st = "open"
    /\ \E n \in DOMAIN resultfiles : resultfiles[n].st = "open"

\* C23: the tables are built by the first call of _initialize_tables and by
\* no later one, however many calls follow, and every lookup reads the
\* tables of that one build.
C23_TablesBuiltOnce ==
    /\ tables.built <= 1
    /\ tables.calls > 0 => tables.built = 1
    /\ tables.reads \subseteq {1}

\* C23 witness: _initialize_tables has been called three times, before and
\* after a lookup, and the tables were built once
C23_Witness ==
    /\ tables.calls = 3
    /\ tables.built = 1
    /\ tables.reads = {1}
    /\ hl.H # <<>>

\* the Cartesian set [x, x+w) x [y, y+h) of a rectangle
Cartesian(r) ==
    { <<a, b>> : a \in r.x..(r.x + r.w - 1), b \in r.y..(r.y + r.h - 1) }

\* C24: the coordinate vectors that RectangularROI.__init__ builds from a
\* rectangle {x, y, w, h} with x, y, w, h >= 0 have length w*h and list the
\* pairs of [x, x+w) x [y, y+h), each one once; they are the same after crop
\* and mark have used the region.
C24_RectangleCoordinatesAreCartesian ==
    \A k \in 1..Len(ROIs) :
        /\ Len(ROIs[k].xpos) = rect.w * rect.h
        /\ Len(ROIs[k].ypos) = rect.w * rect.h
        /\ { <<ROIs[k].xpos[p], ROIs[k].ypos[p]>> : p \in 1..Len(ROIs[k].xpos) }
              = Cartesian(rect)
        /\ \A p, q \in 1..Len(ROIs[k].xpos) :
              p # q => <<ROIs[k].xpos[p], ROIs[k].ypos[p]>>
                          # <<ROIs[k].xpos[q], ROIs[k].ypos[q]>>

\* C24 witness: a region of two columns and one row inside the frame has
\* been built and used by crop and mark
C24_Witness ==
    /\ rect = [x |-> 0, y |-> 0, w |-> 2, h |-> 1]
    /\ ROIs # <<>>
    /\ Len(rgb) = 2
    /\ PixelsOf(ROIs[1]) = { <<0, 0>>, <<1, 0>> }

\* C25 (as claimed): when the stream of a file ends without the reader
\* having yielded a frame, no exception is pending at __exit__: __update__ was
\* never called, __done__ is called once with err false, close() is called
\* on the reader, and the loop of run goes on to the next file.
C25_ZeroFrameFileProcessedWithoutError ==
    /\ pc = "exit" /\ pulled = 0 /\ exc # "iter" => exc = "none"
    /\ \A f \in Files :
          job[f].doneCalls = 1 /\ job[f].pending \notin {"iter", "update"}
          => /\ job[f].pending = "none"
             /\ job[f].out = "none"
             /\ Released(job[f].reader)
             /\ f < cur

\* C26 (as claimed): in every result sink the first line is the complete
\* header and all the lines after it are data rows: no row is ever written
\* to a sink that does not hold its header.
C26_HeaderPrecedesRows ==
    command = "pixylation" =>
        \A n \in DOMAIN resultfiles :
            resultfiles[n].lines # <<>> =>
               /\ resultfiles[n].lines[1] = HeaderLine(masknames)
               /\ \A j \in 2..Len(resultfiles[n].lines) :
                     resultfiles[n].lines[j].kind = "row"

\* color masks with a hue onset of 0 or more, one of them taking every hue
\* from 0 on
FromZeroMasks ==
    { RedMask, GreenMask, WarmMask, ColorMask("any", 0, 361, <<255, 0, 0>>) }

\* C27: for a color mask with onset >= 0, every pixel of a looked-up vector
\* that the mask matches has unequal channels and a luminance above 0, so that
\* whenever the mask matches at least one pixel the sum of the matched
\* luminances, the divisor of the centroid, is above 0.
C27_MatchedLuminancePositive ==
    hl.H # <<>> =>
        \A colormask \in FromZeroMasks :
            /\ colormask.onset >= 0
            /\ \A k \in 1..Len(rgb) :
                  apply(colormask, hl.H)[k] => ~Grey(rgb[k]) /\ hl.L[k] > 0
            /\ count_nonzero(apply(colormask, hl.H)) > 0 =>
                  SumMatched(hl.L, apply(colormask, hl.H), Len(hl.L)) > 0

\* C27 witness: of black and the darkest blue only the blue is matched, and
\* the divisor is its luminance
C27_Witness ==
    /\ rgb = << <<0, 0, 0>>, <<0, 0, 1>> >>
    /\ hl.H = <<-1, 240>>
    /\ SumMatched(hl.L, apply(ColorMask("any", 0, 361, <<255, 0, 0>>), hl.H), 2) = 87

\* C28 (as claimed): when __done__ of a "mean" projection is about to run on
\* a file of which at least one frame was accumulated, its divisor
\* _nframe + 1 is the number of frames of that file.
C28_MeanDivisorIsFrameCount ==
    /\ command = "projection"
    /\ projtype = "mean"
    /\ pc = "exit"
    /\ buffer # -1
    => nframe + 1 = Len(updates)

\* the rectangle lies fully inside the frame
RectInside(r, fr) ==
    /\ r.w >= 1
    /\ r.h >= 1
    /\ r.x >= 0
    /\ r.y >= 0
    /\ r.x + r.w <= Shape(fr).w
    /\ r.y + r.h <= Shape(fr).h

\* C29: for a rectangle with w*h >= 2 that lies fully inside the frame, once
\* both engines have been given the frame, the row of the legacy engine
\* holds the same fields (1-indexed centroid pair or NaN pair per color
\* class) as the row of the rewritten engine, and both have written the same
\* annotated frame.
C29_EnginesAgreeOnRectangles ==
    /\ legacy.st = "updated"
    /\ pc = "exit"
    /\ rect.w * rect.h >= 2
    /\ RectInside(rect, frame)
    => /\ exc = "none"
       /\ Len(legacy.resultfile.lines) = 2
       /\ legacy.resultfile.lines = resultfiles["roi"].lines
       /\ legacy.maskfile.frames = maskfile.frames
       /\ Len(maskfile.frames) = 1

\* C29 witness: on the whole of a frame with Red and Green pixels the
\* "warm" class, which matches both, gets the same centroid off the pixel
\* grid from the two engines, and both mark the frame
C29_Witness ==
    /\ legacy.st = "updated"
    /\ pc = "exit"
    /\ rect = [x |-> 0, y |-> 0, w |-> LegacyW, h |-> LegacyH]
    /\ masks = <<RedMask, WarmMask>>
    /\ legacy.resultfile.lines = resultfiles["roi"].lines
    /\ legacy.maskfile.frames = maskfile.frames
    /\ \E j \in 1..4 :
          /\ ~resultfiles["roi"].lines[2].cols[j].nan
          /\ resultfiles["roi"].lines[2].cols[j].e4 % 10000 # 0
    /\ maskfile.frames[1] # Zeros(frame)

====
